---- MODULE Spec2Model ----
(***************************************************************************)
(* Model of make_data.py: the token cache (TokenizedDatasetBuilder,        *)
(* TokenizedDatasetReader, check_temp_files), the shuffle/assemble stage   *)
(* of process_data and the MMapIndexedDatasetBuilder it feeds.             *)
(*                                                                         *)
(* Files are modelled as sequences of bytes.  A file opened for writing    *)
(* is buffered as io.BufferedWriter does it: data that fits the free part  *)
(* of the buffer is kept there; otherwise the pending bytes go to disk     *)
(* first, and the data follows them to disk when it is larger than the     *)
(* whole buffer; close flushes.  Only flushed bytes are on disk.           *)
(* struct.pack/unpack and np.frombuffer/tobytes are modelled as            *)
(* little-endian byte conversions.                                         *)
(***************************************************************************)
EXTENDS Integers, Sequences, FiniteSets, TLC

\* ---------------------------------------------------------------- bounds
\* direct use of the cache API: documents added, symbols per document,
\* reads made on the reader
MaxDocs == 2
MaxDocLen == 2
MaxCalls == 2
\* process_data: input lines, epochs, and lines x epochs of one run
MaxLines == 3
MaxEpoch == 2
MaxWork == 8
\* check_temp_files: bytes in the symbol stream handed to the probe
MaxProbeBytes == 5
\* direct use of the dataset writer: calls made, elements per array
MaxWriterCalls == 4
MaxItemLen == 1
\* magic-prime search: total symbol counts 0..MaxDataSize, context lengths
\* 1..MaxCtxLen (plus the two worked examples of the specification)
MaxDataSize == 40
MaxCtxLen == 3
\* bytes in the buffer open() gives a file: the block size of the file
\* system the cache is written to (4096 on ext4), here a few records
BufferSize == 16

\* ------------------------------------------------------ program constants
USHORT_MAX == 65535
RECORD_SIZE == 12
ITEM_SIZE == 2

\* ------------------------------------------------------- byte conversions
RECURSIVE PackLE(_, _)
PackLE(n, w) == IF w = 0 THEN << >> ELSE <<n % 256>> \o PackLE(n \div 256, w - 1)

RECURSIVE UnpackLE(_)
UnpackLE(bs) == IF bs = << >> THEN 0 ELSE bs[1] + 256 * UnpackLE(Tail(bs))

\* struct.pack(f"<{len(tokens)}H", *tokens) raises struct.error unless every
\* value is in 0..65535
pack_H_ok(tokens) == \A i \in 1..Len(tokens) : tokens[i] >= 0 /\ tokens[i] <= USHORT_MAX

RECURSIVE pack_H(_)
pack_H(tokens) ==
    IF tokens = << >> THEN << >>
    ELSE PackLE(tokens[1], ITEM_SIZE) \o pack_H(Tail(tokens))

\* struct.pack("<QI", offset, length): 8 + 4 bytes, no padding
pack_QI(offset, length) == PackLE(offset, 8) \o PackLE(length, 4)

\* struct.unpack("<QI", b) on exactly 12 bytes
unpack_QI(b) == <<UnpackLE(SubSeq(b, 1, 8)), UnpackLE(SubSeq(b, 9, 12))>>

\* np.frombuffer(b, dtype=np.uint16) on an even number of bytes
RECURSIVE frombuffer(_)
frombuffer(b) ==
    IF Len(b) < ITEM_SIZE THEN << >>
    ELSE <<UnpackLE(SubSeq(b, 1, ITEM_SIZE))>> \o frombuffer(SubSeq(b, ITEM_SIZE + 1, Len(b)))

\* np_array.tobytes(order="C") of a uint16 array
tobytes(arr) == pack_H(arr)

Min(a, b) == IF a < b THEN a ELSE b

RECURSIVE SumSeq(_)
SumSeq(s) == IF s = << >> THEN 0 ELSE s[1] + SumSeq(Tail(s))

RECURSIVE Flatten(_)
Flatten(ss) == IF ss = << >> THEN << >> ELSE ss[1] \o Flatten(Tail(ss))

\* ------------------------------------------------------------ file model
NoFile == [exists |-> FALSE, bytes |-> << >>]
EmptyFile == [exists |-> TRUE, bytes |-> << >>]

\* f.read(n) at position pos: the bytes that are there, at most n of them
file_read(bytes, pos, n) == SubSeq(bytes, pos + 1, Min(pos + n, Len(bytes)))

\* f.write(data) on a buffered file: data that fits the free part of the
\* buffer stays there; otherwise the pending bytes are written out, and
\* the data after them when it is larger than the buffer
file_write(f, buf, data) ==
    IF Len(data) <= BufferSize - Len(buf) THEN [file |-> f, buf |-> buf \o data]
    ELSE IF Len(data) > BufferSize
    THEN [file |-> [f EXCEPT !.bytes = @ \o buf \o data], buf |-> << >>]
    ELSE [file |-> [f EXCEPT !.bytes = @ \o buf], buf |-> data]

file_close(f, buf) == [f EXCEPT !.bytes = @ \o buf]

\* ------------------------------------------------------ check_temp_files
\* variant: the probe stops after reading the first record
check_temp_files_record_only(fs) ==
    /\ fs.tokens.exists /\ fs.offsets.exists
    /\ Len(file_read(fs.offsets.bytes, 0, RECORD_SIZE)) = RECORD_SIZE

check_temp_files(fs) ==
    IF ~(fs.tokens.exists /\ fs.offsets.exists) THEN FALSE
    ELSE LET offset_bytes == file_read(fs.offsets.bytes, 0, RECORD_SIZE) IN
         IF offset_bytes = << >> THEN FALSE
         ELSE IF Len(offset_bytes) # RECORD_SIZE THEN FALSE   \* struct.error, caught
         ELSE LET length == unpack_QI(offset_bytes)[2]
                  token_bytes == file_read(fs.tokens.bytes, 0, length * ITEM_SIZE)
              IN  Len(token_bytes) = length * ITEM_SIZE

\* ------------------------------------------------ TokenizedDatasetBuilder
\* line 84: open(..., "wb") creates or truncates the symbol stream
open_token_file(fs) == [fs EXCEPT !.tokens = EmptyFile]

\* line 85: the same for the offset index
open_offset_file(fs) == [fs EXCEPT !.offsets = EmptyFile]

TokenizedDatasetBuilder_init(fs) ==
    [self |-> [tbuf |-> << >>, obuf |-> << >>, current_offset |-> 0, doc_count |-> 0],
     fs   |-> open_offset_file(open_token_file(fs))]

\* lines 91-92: pack the symbols (struct.error unless every id is in
\* 0..65535) and write them to the symbol stream
write_tokens(self, fs, tokens) ==
    IF ~pack_H_ok(tokens) THEN [ok |-> FALSE, self |-> self, fs |-> fs]
    ELSE LET wt == file_write(fs.tokens, self.tbuf, pack_H(tokens)) IN
         [ok   |-> TRUE,
          self |-> [self EXCEPT !.tbuf = wt.buf],
          fs   |-> [fs EXCEPT !.tokens = wt.file]]

\* lines 95-99: write the offset record, advance the counters
write_offset_record(self, fs, tokens) ==
    LET wo == file_write(fs.offsets, self.obuf,
                         pack_QI(self.current_offset, Len(tokens)))
    IN  [self |-> [self EXCEPT !.obuf = wo.buf,
                               !.current_offset = self.current_offset + Len(tokens),
                               !.doc_count = self.doc_count + 1],
         fs   |-> [fs EXCEPT !.offsets = wo.file]]

\* variant: the running offset is not advanced
add_tokens_stale_offset(self, fs, tokens) ==
    IF ~pack_H_ok(tokens) THEN [ok |-> FALSE, self |-> self, fs |-> fs]
    ELSE LET wt == file_write(fs.tokens, self.tbuf, pack_H(tokens))
             wo == file_write(fs.offsets, self.obuf,
                              pack_QI(self.current_offset, Len(tokens)))
         IN  [ok   |-> TRUE,
              self |-> [tbuf |-> wt.buf, obuf |-> wo.buf,
                        current_offset |-> self.current_offset,
                        doc_count |-> self.doc_count + 1],
              fs   |-> [tokens |-> wt.file, offsets |-> wo.file]]

\* variant: ids are cut to 16 bits instead of being rejected
add_tokens_wrapping(self, fs, tokens) ==
    LET cut == [i \in 1..Len(tokens) |-> tokens[i] % (USHORT_MAX + 1)]
        wt == file_write(fs.tokens, self.tbuf, pack_H(cut))
        wo == file_write(fs.offsets, self.obuf,
                         pack_QI(self.current_offset, Len(tokens)))
    IN  [ok   |-> TRUE,
         self |-> [tbuf |-> wt.buf, obuf |-> wo.buf,
                   current_offset |-> self.current_offset + Len(tokens),
                   doc_count |-> self.doc_count + 1],
         fs   |-> [tokens |-> wt.file, offsets |-> wo.file]]

add_tokens(self, fs, tokens) ==
    LET t == write_tokens(self, fs, tokens) IN
    IF ~t.ok THEN [ok |-> FALSE, self |-> self, fs |-> fs]
    ELSE LET o == write_offset_record(t.self, t.fs, tokens) IN
         [ok |-> TRUE, self |-> o.self, fs |-> o.fs]

\* line 105: self.token_file.close()
close_token_file(self, fs) ==
    [self |-> [self EXCEPT !.tbuf = << >>],
     fs   |-> [fs EXCEPT !.tokens = file_close(fs.tokens, self.tbuf)]]

\* line 106: self.offset_file.close()
close_offset_file(self, fs) ==
    [self |-> [self EXCEPT !.obuf = << >>],
     fs   |-> [fs EXCEPT !.offsets = file_close(fs.offsets, self.obuf)]]

builder_finalize(self, fs) ==
    LET t == close_token_file(self, fs)
        o == close_offset_file(t.self, t.fs)
    IN  [ret |-> <<self.doc_count, self.current_offset>>, self |-> o.self, fs |-> o.fs]

\* ------------------------------------------------- TokenizedDatasetReader
RECURSIVE read_offsets(_)
read_offsets(bytes) ==
    IF Len(bytes) < RECORD_SIZE THEN << >>
    ELSE <<unpack_QI(SubSeq(bytes, 1, RECORD_SIZE))>>
             \o read_offsets(SubSeq(bytes, RECORD_SIZE + 1, Len(bytes)))

\* a trailing chunk shorter than 12 bytes makes struct.unpack raise
TokenizedDatasetReader_init(fs) ==
    IF ~(fs.tokens.exists /\ fs.offsets.exists) THEN
        [ok |-> FALSE, self |-> [doc_offsets |-> << >>, pos |-> 0]]
    ELSE IF Len(fs.offsets.bytes) % RECORD_SIZE # 0 THEN
        [ok |-> FALSE, self |-> [doc_offsets |-> << >>, pos |-> 0]]
    ELSE [ok |-> TRUE, self |-> [doc_offsets |-> read_offsets(fs.offsets.bytes), pos |-> 0]]

reader_len(self) == Len(self.doc_offsets)

NoArray == [dtype |-> "uint16", elems |-> << >>]

\* variant: the read starts where the previous one ended (no seek)
get_doc_tokens_no_seek(self, fs, doc_idx) ==
    LET n == Len(self.doc_offsets) IN
    IF doc_idx >= n \/ doc_idx < -n THEN
        [status |-> "IndexError", arr |-> NoArray, self |-> self]
    ELSE LET rec == self.doc_offsets[(IF doc_idx < 0 THEN doc_idx + n ELSE doc_idx) + 1]
             token_bytes == file_read(fs.tokens.bytes, self.pos, rec[2] * ITEM_SIZE)
             self2 == [self EXCEPT !.pos = self.pos + Len(token_bytes)]
         IN  IF Len(token_bytes) % ITEM_SIZE # 0 THEN
                 [status |-> "ValueError", arr |-> NoArray, self |-> self2]
             ELSE [status |-> "ok",
                   arr |-> [dtype |-> "uint16", elems |-> frombuffer(token_bytes)],
                   self |-> self2]

\* list indexing accepts -n..n-1; np.frombuffer rejects an odd byte count
get_doc_tokens(self, fs, doc_idx) ==
    LET n == Len(self.doc_offsets) IN
    IF doc_idx >= n \/ doc_idx < -n THEN
        [status |-> "IndexError", arr |-> NoArray, self |-> self]
    ELSE LET rec == self.doc_offsets[(IF doc_idx < 0 THEN doc_idx + n ELSE doc_idx) + 1]
             seek == rec[1] * ITEM_SIZE
             token_bytes == file_read(fs.tokens.bytes, seek, rec[2] * ITEM_SIZE)
             self2 == [self EXCEPT !.pos = seek + Len(token_bytes)]
         IN  IF Len(token_bytes) % ITEM_SIZE # 0 THEN
                 [status |-> "ValueError", arr |-> NoArray, self |-> self2]
             ELSE [status |-> "ok",
                   arr |-> [dtype |-> "uint16", elems |-> frombuffer(token_bytes)],
                   self |-> self2]

\* ---------------------------------------------- MMapIndexedDatasetBuilder
MMapIndexedDatasetBuilder_init ==
    [dtype |-> "uint16", sizes |-> << >>, doc_idx |-> <<0>>, data |-> << >>]

\* variant: the item's bytes go to the front of the data file
add_item_at_front(self, np_array) ==
    IF np_array.dtype # self.dtype THEN [ok |-> FALSE, self |-> self]
    ELSE [ok |-> TRUE,
          self |-> [self EXCEPT !.data = tobytes(np_array.elems) \o @,
                                !.sizes = Append(@, Len(np_array.elems))]]

\* variant: the recorded length is the item's size in bytes
add_item_byte_sizes(self, np_array) ==
    IF np_array.dtype # self.dtype THEN [ok |-> FALSE, self |-> self]
    ELSE [ok |-> TRUE,
          self |-> [self EXCEPT !.data = @ \o tobytes(np_array.elems),
                                !.sizes = Append(@, Len(tobytes(np_array.elems)))]]

\* variant: an array of another width is cast to the declared one and written
add_item_coercing(self, np_array) ==
    [ok |-> TRUE,
     self |-> [self EXCEPT !.data = @ \o tobytes(np_array.elems),
                           !.sizes = Append(@, Len(np_array.elems))]]

\* the assert (assertions enabled, as in a plain `python make_data.py` run)
\* raises before anything is written
add_item(self, np_array) ==
    IF np_array.dtype # self.dtype THEN [ok |-> FALSE, self |-> self]
    ELSE [ok |-> TRUE,
          self |-> [self EXCEPT !.data = @ \o tobytes(np_array.elems),
                                !.sizes = Append(@, Len(np_array.elems))]]

end_document(self) == [self EXCEPT !.doc_idx = Append(@, Len(self.sizes))]

\* =========================================================== state
VARIABLES
    pc,             \* control point of the run
    fs,             \* the two cache files on disk
    builder,        \* fields of the open TokenizedDatasetBuilder
    reader,         \* TokenizedDatasetReader fields
    final_builder,  \* MMapIndexedDatasetBuilder fields
    input,          \* the input file, one entry per line
    line,           \* input lines consumed while the input file is open
    n_epoch, epoch, doc_indices, k,
    total_docs, total_tokens,
    fetched,        \* ordinals passed to get_doc_tokens by this run, in order
    docs,           \* documents accepted by direct add_tokens calls, in order
    perms,          \* permutation drawn for each epoch of this run
    calls,          \* API calls made on the reader
    probe,          \* how the files handed to check_temp_files were made
    codec_calls,    \* tokenizer.encode calls made by this run
    reused,         \* this run took the existing cache
    items,          \* arrays accepted by direct add_item calls, in order
    mp,             \* the magic-prime search: inputs, candidate, outcome
    naming,         \* two process_data argument pairs and their cache prefixes
    result          \* outcome of the last operation

vars == <<pc, fs, builder, reader, final_builder, input, line, n_epoch, epoch,
          doc_indices, k, total_docs, total_tokens, fetched, docs, perms, calls, probe, result,
          codec_calls, reused, items, mp, naming>>

NoBuilder == [tbuf |-> << >>, obuf |-> << >>, current_offset |-> 0, doc_count |-> 0]
NoReader == [doc_offsets |-> << >>, pos |-> 0]
NoResult == [op |-> "none"]
NoProbe == [made |-> FALSE]
NoSearch == [data_size |-> 0, ctx_len |-> 0, n_chunk |-> 0, i |-> 0, magic_prime |-> 0]
NoNaming == [made |-> FALSE]

\* the state of the stand-alone operations, untouched by process_data
sideVars == <<items, mp, naming>>
SideInit == items = << >> /\ mp = NoSearch /\ naming = NoNaming

SeqsUpTo(S, n) == UNION {[1..m -> S] : m \in 0..n}

\* ============================ the cache API driven directly (SpecCache)
CacheSymbols == {0, 258, USHORT_MAX + 1}

\* a text whose encoding, with the end marker, does not fit the file buffer
LongText == [i \in 1..(BufferSize \div ITEM_SIZE) |-> 258]
LongDoc == Append(LongText, 0)

pipeVars == <<input, line, n_epoch, epoch, doc_indices, k, total_docs,
              total_tokens, fetched, perms, final_builder, probe,
              codec_calls, reused, items, mp, naming>>

CacheInit ==
    /\ pc = "building"
    /\ builder = TokenizedDatasetBuilder_init([tokens |-> NoFile, offsets |-> NoFile]).self
    /\ fs = TokenizedDatasetBuilder_init([tokens |-> NoFile, offsets |-> NoFile]).fs
    /\ reader = NoReader
    /\ final_builder = MMapIndexedDatasetBuilder_init
    /\ input = << >> /\ line = 0 /\ n_epoch = 0 /\ epoch = 0
    /\ doc_indices = << >> /\ k = 0 /\ total_docs = 0 /\ total_tokens = 0
    /\ fetched = << >> /\ docs = << >> /\ perms = << >> /\ calls = 0
    /\ probe = NoProbe
    /\ codec_calls = 0 /\ reused = FALSE
    /\ SideInit
    /\ result = NoResult

CacheAddTokens ==
    /\ pc = "building"
    /\ builder.doc_count < MaxDocs
    /\ \E tokens \in SeqsUpTo(CacheSymbols, MaxDocLen) \cup {LongDoc} :
         LET r == add_tokens(builder, fs, tokens) IN
         /\ builder' = r.self
         /\ fs' = r.fs
         /\ docs' = IF r.ok THEN Append(docs, tokens) ELSE docs
         /\ result' = [op |-> "add_tokens", arg |-> tokens, ok |-> r.ok]
    /\ UNCHANGED <<pc, reader, calls, pipeVars>>

CacheFinalize ==
    /\ pc = "building"
    /\ LET r == builder_finalize(builder, fs) IN
         /\ builder' = r.self
         /\ fs' = r.fs
         /\ result' = [op |-> "finalize", ret |-> r.ret]
    /\ pc' = "finalized"
    /\ UNCHANGED <<reader, docs, calls, pipeVars>>

CacheOpenReader ==
    /\ pc = "finalized"
    /\ LET r == TokenizedDatasetReader_init(fs) IN
         /\ r.ok
         /\ reader' = r.self
    /\ pc' = "reading"
    /\ result' = [op |-> "open"]
    /\ UNCHANGED <<fs, builder, docs, calls, pipeVars>>

CacheGetDocTokens ==
    /\ pc = "reading"
    /\ calls < MaxCalls
    /\ \E doc_idx \in (-(MaxDocs + 1))..MaxDocs :
         LET r == get_doc_tokens(reader, fs, doc_idx) IN
         /\ reader' = r.self
         /\ result' = [op |-> "get_doc_tokens", arg |-> doc_idx,
                       status |-> r.status, arr |-> r.arr]
    /\ calls' = calls + 1
    /\ UNCHANGED <<pc, fs, builder, docs, pipeVars>>

CacheNext == CacheAddTokens \/ CacheFinalize \/ CacheOpenReader \/ CacheGetDocTokens

SpecCache == CacheInit /\ [][CacheNext]_vars

\* recorded lengths and offsets of an offset index
Lengths(recs) == [i \in 1..Len(recs) |-> recs[i][2]]
Offsets(recs) == [i \in 1..Len(recs) |-> recs[i][1]]
DocLengths(ds) == [i \in 1..Len(ds) |-> Len(ds[i])]

\* C1: after add_tokens calls and finalize(), record i's offset is the sum of
\* the lengths of records 0..i-1, and the total returned by finalize() is the
\* sum of all record lengths, the last record's offset + length and the
\* number of symbols in the stream.
C1_OffsetIndexRunningSum ==
    (pc = "finalized") =>
        LET recs == read_offsets(fs.offsets.bytes)
            total == result.ret[2]
        IN  /\ Len(fs.offsets.bytes) = RECORD_SIZE * Len(docs)
            /\ Lengths(recs) = DocLengths(docs)
            /\ \A i \in 1..Len(recs) :
                   recs[i][1] = SumSeq(SubSeq(Lengths(recs), 1, i - 1))
            /\ result.ret[1] = Len(recs)
            /\ total = SumSeq(Lengths(recs))
            /\ Len(recs) > 0 => total = recs[Len(recs)][1] + recs[Len(recs)][2]
            /\ Len(fs.tokens.bytes) = ITEM_SIZE * total

C1_Witness ==
    /\ pc = "finalized"
    /\ Len(docs) = 2
    /\ Len(docs[1]) = 2 /\ Len(docs[2]) = 1
    /\ read_offsets(fs.offsets.bytes)[2][1] = 2

\* C4: a reader opened on a finalized cache has one entry per appended
\* document and get_doc_tokens(i) returns exactly document i, whatever calls
\* were made before.
C4_BuilderReaderRoundTrip ==
    (pc = "reading") =>
        /\ reader_len(reader) = Len(docs)
        /\ (result.op = "get_doc_tokens" /\ result.arg \in 0..(Len(docs) - 1)) =>
               /\ result.status = "ok"
               /\ result.arr.elems = docs[result.arg + 1]

C4_Witness ==
    /\ pc = "reading"
    /\ calls >= 2
    /\ Len(docs) = 2
    /\ result.op = "get_doc_tokens" /\ result.arg = 0
    /\ result.arr.elems = <<258, 0>>
    /\ docs[2] # docs[1]

\* C5: get_doc_tokens fails with an out-of-range error for every ordinal
\* outside [0, document_count), negative ordinals included.
C5_OutOfRangeFails ==
    (result.op = "get_doc_tokens"
        /\ (result.arg < 0 \/ result.arg >= reader_len(reader))) =>
            result.status = "IndexError"

\* C7: add_tokens with a symbol id above 65535 fails and changes neither the
\* files nor the builder's running offset and document counter.
C7_RangeErrorAppendsNothing ==
    [][(result'.op = "add_tokens" /\ ~pack_H_ok(result'.arg)) =>
          (~result'.ok /\ fs' = fs /\ builder' = builder /\ docs' = docs)]_vars

C7_Witness ==
    /\ result.op = "add_tokens"
    /\ ~result.ok
    /\ Len(docs) = 1
    /\ builder.current_offset = 2

\* ================= check_temp_files applied to given files (SpecProbe)
ZeroBytes(n) == [i \in 1..n |-> 0]

\* offset index files: a prefix of one record, or one record and the start
\* of a second one
ProbeOffsetFiles ==
    {[off |-> o, len |-> l, cut |-> c] :
        o \in 0..1, l \in 0..(MaxProbeBytes \div ITEM_SIZE + 1), c \in 0..(RECORD_SIZE + 1)}

ProbeInit ==
    /\ pc = "probe"
    /\ \E p \in ProbeOffsetFiles, te \in BOOLEAN, oe \in BOOLEAN, tn \in 0..MaxProbeBytes :
         /\ probe = [made |-> TRUE, off |-> p.off, len |-> p.len, cut |-> p.cut]
         /\ fs = [tokens  |-> IF te THEN [exists |-> TRUE, bytes |-> ZeroBytes(tn)]
                              ELSE NoFile,
                  offsets |-> IF oe THEN
                                  [exists |-> TRUE,
                                   bytes |-> SubSeq(pack_QI(p.off, p.len) \o <<7>>, 1, p.cut)]
                              ELSE NoFile]
    /\ builder = NoBuilder
    /\ reader = NoReader
    /\ final_builder = MMapIndexedDatasetBuilder_init
    /\ input = << >> /\ line = 0 /\ n_epoch = 0 /\ epoch = 0
    /\ doc_indices = << >> /\ k = 0 /\ total_docs = 0 /\ total_tokens = 0
    /\ fetched = << >> /\ docs = << >> /\ perms = << >> /\ calls = 0
    /\ codec_calls = 0 /\ reused = FALSE
    /\ SideInit
    /\ result = NoResult

ProbeCheck ==
    /\ pc = "probe"
    /\ result' = [op |-> "check_temp_files", ret |-> check_temp_files(fs)]
    /\ pc' = "probed"
    /\ UNCHANGED <<fs, builder, reader, final_builder, input, line, n_epoch, epoch,
                   doc_indices, k, total_docs, total_tokens, fetched, docs, perms,
                   calls, probe, codec_calls, reused, sideVars>>

ProbeNext == ProbeCheck

SpecProbe == ProbeInit /\ [][ProbeNext]_vars

\* C2: check_temp_files is true exactly when both files exist, a complete
\* 12-byte first record is readable and the stream holds at least the
\* number of symbols that record declares.
C2_ProbeIff ==
    (pc = "probed") =>
        (result.ret <=>
            /\ fs.tokens.exists /\ fs.offsets.exists
            /\ probe.cut >= RECORD_SIZE
            /\ Len(fs.tokens.bytes) \div ITEM_SIZE >= probe.len)

C2_Witness ==
    /\ pc = "probed"
    /\ result.ret
    /\ probe.len = 2
    /\ Len(fs.tokens.bytes) = 5

C2_WitnessShort ==
    /\ pc = "probed"
    /\ ~result.ret
    /\ fs.tokens.exists /\ fs.offsets.exists
    /\ probe.cut >= RECORD_SIZE
    /\ probe.len = 2 /\ Len(fs.tokens.bytes) = 3

\* ===================================== process_data, step by step (Spec)
\* What the codec returns for the texts of the input; an id above 65535
\* stands for a vocabulary too large for the cache's element width.
Encodings == {<< >>, <<258>>, <<USHORT_MAX + 1>>, LongText}

\* An input line: blank, not parsable as a record with a "text" field,
\* failing decode(encode(text)) == text, or a document with its encoding.
Lines ==
    {[kind |-> kd, tokens |-> << >>] : kd \in {"blank", "bad"}}
    \cup {[kind |-> "rtfail", tokens |-> <<258>>]}
    \cup {[kind |-> "ok", tokens |-> t] : t \in Encodings}

\* every arrangement of the members of S
RECURSIVE Arrangements(_)
Arrangements(S) ==
    IF S = {} THEN {<< >>}
    ELSE UNION {{<<x>> \o p : p \in Arrangements(S \ {x})} : x \in S}

\* variant: ordinals drawn independently (with replacement)
sampled_range(n) == [1..n -> 0..(n - 1)]

\* doc_indices = list(range(n)); random.shuffle(doc_indices)
shuffled_range(n) == Arrangements(0..(n - 1))

Init ==
    /\ pc = "idle"
    /\ input \in SeqsUpTo(Lines, MaxLines)
    /\ fs = [tokens |-> NoFile, offsets |-> NoFile]
    /\ builder = NoBuilder
    /\ reader = NoReader
    /\ final_builder = MMapIndexedDatasetBuilder_init
    /\ line = 0 /\ n_epoch = 0 /\ epoch = 0
    /\ doc_indices = << >> /\ k = 0 /\ total_docs = 0 /\ total_tokens = 0
    /\ fetched = << >> /\ docs = << >> /\ perms = << >> /\ calls = 0
    /\ probe = NoProbe
    /\ codec_calls = 0 /\ reused = FALSE
    /\ SideInit
    /\ result = NoResult

\* process_data up to the first input line: cache probe, then either the
\* reuse branch or the construction of the cache builder.  The runs
\* explored are those of at most MaxWork (lines x epochs).
\* variant: the accepted cache is opened by a new builder all the same
load_cache_rebuilding(files) ==
    LET r == TokenizedDatasetReader_init(files)
        last == r.self.doc_offsets[reader_len(r.self)]
        emptied == TokenizedDatasetBuilder_init(files).fs
    IN  IF r.ok
        THEN [ok |-> TRUE, reader |-> r.self, total_docs |-> reader_len(r.self),
              total_tokens |-> last[1] + last[2], fs |-> emptied]
        ELSE [ok |-> FALSE, reader |-> NoReader, total_docs |-> 0,
              total_tokens |-> 0, fs |-> emptied]

\* lines 203-208: the branch taken when the probe accepts the cache; the
\* files are opened for reading only
load_cache(files) ==
    LET r == TokenizedDatasetReader_init(files)
        last == r.self.doc_offsets[reader_len(r.self)]
    IN  IF r.ok
        THEN [ok |-> TRUE, reader |-> r.self, total_docs |-> reader_len(r.self),
              total_tokens |-> last[1] + last[2], fs |-> files]
        ELSE [ok |-> FALSE, reader |-> NoReader, total_docs |-> 0,
              total_tokens |-> 0, fs |-> files]

ProcessDataStart ==
    /\ pc \in {"idle", "done", "interrupted", "aborted"}
    /\ \E n \in 0..MaxEpoch : n * Len(input) <= MaxWork /\ n_epoch' = n
    /\ line' = 0 /\ epoch' = 0 /\ doc_indices' = << >> /\ k' = 0
    /\ fetched' = << >> /\ docs' = << >> /\ perms' = << >>
    /\ final_builder' = MMapIndexedDatasetBuilder_init
    /\ IF check_temp_files(fs) THEN
           LET c == load_cache(fs) IN
               /\ result' = [op |-> "start", reused |-> TRUE]
               /\ fs' = c.fs
               /\ builder' = NoBuilder
               /\ total_docs' = c.total_docs
               /\ total_tokens' = c.total_tokens
               /\ reader' = c.reader
               /\ pc' = IF c.ok THEN "shuffle" ELSE "aborted"
       ELSE
           /\ result' = [op |-> "start", reused |-> FALSE]
           /\ builder' = NoBuilder
           /\ fs' = open_token_file(fs)
           /\ reader' = NoReader
           /\ total_docs' = 0 /\ total_tokens' = 0
           /\ pc' = "init_offsets"
    /\ codec_calls' = 0
    /\ reused' = check_temp_files(fs)
    /\ UNCHANGED <<input, calls, probe, sideVars>>

\* TokenizedDatasetBuilder.__init__ after its first open: lines 85-87
BuilderOpenOffsets ==
    /\ pc = "init_offsets"
    /\ fs' = open_offset_file(fs)
    /\ builder' = TokenizedDatasetBuilder_init(fs).self
    /\ pc' = "build"
    /\ UNCHANGED <<reader, final_builder, input, line, n_epoch, epoch, doc_indices, k,
                   total_docs, total_tokens, fetched, docs, perms, calls, probe,
                   codec_calls, reused, sideVars, result>>

\* variant: a document failing the round trip is cached all the same
process_line_keep_failed(self, files, rec) ==
    IF rec.kind \in {"blank", "bad"} THEN
        [added |-> FALSE, self |-> self, fs |-> files]
    ELSE
        LET tokens == Append(rec.tokens, 0)
            r == write_tokens(self, files, tokens)
        IN  [added |-> r.ok, self |-> r.self, fs |-> r.fs]

\* the body of the loop for one line, up to the write of the symbols in
\* add_tokens: blank lines, records that do not parse and round-trip
\* failures `continue`; so does a document whose add_tokens raises
\* (`except Exception`)
process_line(self, files, rec) ==
    IF rec.kind \in {"blank", "bad", "rtfail"} THEN
        [added |-> FALSE, self |-> self, fs |-> files]
    ELSE
        LET tokens == Append(rec.tokens, 0)
            r == write_tokens(self, files, tokens)
        IN  [added |-> r.ok, self |-> r.self, fs |-> r.fs]

\* an iteration of the loop over the input lines begins (lines 215-220):
\* a blank line and a record that does not parse `continue`; for any other
\* line tokenizer.encode is called
BuildLine ==
    /\ pc = "build"
    /\ line < Len(input)
    /\ IF input[line + 1].kind \in {"rtfail", "ok"}
       THEN /\ codec_calls' = codec_calls + 1
            /\ pc' = "encoded"
            /\ UNCHANGED <<builder, fs, line, result>>
       ELSE LET r == process_line(builder, fs, input[line + 1]) IN
            /\ builder' = r.self
            /\ fs' = r.fs
            /\ line' = line + 1
            /\ result' = [op |-> "line", added |-> r.added]
            /\ UNCHANGED <<pc, codec_calls>>
    /\ UNCHANGED <<reader, final_builder, input, n_epoch, epoch, doc_indices, k,
                   total_docs, total_tokens, fetched, docs, perms, calls, probe, reused, sideVars>>

\* the iteration after encode (lines 222-226), as far as line 92 of
\* add_tokens when the document gets there
BuildEncoded ==
    /\ pc = "encoded"
    /\ LET r == process_line(builder, fs, input[line + 1]) IN
         /\ builder' = r.self
         /\ fs' = r.fs
         /\ IF r.added
            THEN /\ pc' = "add_record"
                 /\ UNCHANGED <<line, result>>
            ELSE /\ pc' = "build"
                 /\ line' = line + 1
                 /\ result' = [op |-> "line", added |-> FALSE]
    /\ UNCHANGED <<reader, final_builder, input, n_epoch, epoch, doc_indices, k,
                   total_docs, total_tokens, fetched, docs, perms, calls, probe,
                   codec_calls, reused, sideVars>>

\* the rest of add_tokens (lines 95-99) and of the iteration
BuildRecord ==
    /\ pc = "add_record"
    /\ LET o == write_offset_record(builder, fs, Append(input[line + 1].tokens, 0)) IN
         /\ builder' = o.self
         /\ fs' = o.fs
    /\ line' = line + 1
    /\ pc' = "build"
    /\ result' = [op |-> "line", added |-> TRUE]
    /\ UNCHANGED <<reader, final_builder, input, n_epoch, epoch, doc_indices, k,
                   total_docs, total_tokens, fetched, docs, perms, calls, probe,
                   codec_calls, reused, sideVars>>

\* end of the input: finalize() closes the symbol stream (line 105)
BuildFinalize ==
    /\ pc = "build"
    /\ line = Len(input)
    /\ LET t == close_token_file(builder, fs) IN
         /\ builder' = t.self
         /\ fs' = t.fs
    /\ pc' = "finalize_offsets"
    /\ UNCHANGED <<reader, final_builder, input, line, n_epoch, epoch, doc_indices, k,
                   total_docs, total_tokens, fetched, docs, perms, calls, probe,
                   codec_calls, reused, sideVars, result>>

\* finalize() closes the offset index and returns (lines 106-107); the
\* reader is opened for phase 2
BuildFinalizeOffsets ==
    /\ pc = "finalize_offsets"
    /\ LET f == builder_finalize(builder, fs)
           r == TokenizedDatasetReader_init(f.fs)
       IN  /\ builder' = NoBuilder
           /\ fs' = f.fs
           /\ total_docs' = f.ret[1]
           /\ total_tokens' = f.ret[2]
           /\ reader' = r.self
           /\ pc' = IF r.ok THEN "shuffle" ELSE "aborted"
    /\ line' = 0
    /\ result' = [op |-> "finalize"]
    /\ UNCHANGED <<final_builder, input, n_epoch, epoch, doc_indices, k,
                   fetched, docs, perms, calls, probe, codec_calls, reused, sideVars>>

\* the process is stopped during phase 1, between two writes or opens:
\* either the buffered bytes are lost (kill, os._exit, power loss) or the
\* interpreter closes the open files on its way out (KeyboardInterrupt)
Interrupt ==
    /\ pc \in {"init_offsets", "build", "encoded", "add_record", "finalize_offsets"}
    /\ \E graceful \in BOOLEAN :
         fs' = IF graceful THEN builder_finalize(builder, fs).fs ELSE fs
    /\ builder' = NoBuilder
    /\ pc' = "interrupted"
    /\ result' = [op |-> "interrupt"]
    /\ UNCHANGED <<reader, final_builder, input, line, n_epoch, epoch, doc_indices, k,
                   total_docs, total_tokens, fetched, docs, perms, calls, probe, codec_calls, reused, sideVars>>

\* head of the epoch loop: a fresh shuffle of the document ordinals
ShuffleEpoch ==
    /\ pc = "shuffle"
    /\ k = Len(doc_indices)
    /\ epoch < n_epoch
    /\ \E p \in shuffled_range(reader_len(reader)) :
         /\ doc_indices' = p
         /\ perms' = Append(perms, p)
    /\ epoch' = epoch + 1
    /\ k' = 0
    /\ result' = [op |-> "shuffle"]
    /\ UNCHANGED <<pc, fs, builder, reader, final_builder, input, line, n_epoch,
                   total_docs, total_tokens, fetched, docs, calls, probe, codec_calls, reused, sideVars>>

\* body of the inner loop: fetch one document, append it as one item
FetchAppend ==
    /\ pc = "shuffle"
    /\ k < Len(doc_indices)
    /\ LET doc_idx == doc_indices[k + 1]
           r == get_doc_tokens(reader, fs, doc_idx)
           a == add_item(final_builder, r.arr)
       IN  /\ reader' = r.self
           /\ fetched' = Append(fetched, doc_idx)
           /\ result' = [op |-> "fetch", arg |-> doc_idx, status |-> r.status]
           /\ IF r.status = "ok" /\ a.ok THEN
                  /\ final_builder' = end_document(a.self)
                  /\ k' = k + 1
                  /\ pc' = "shuffle"
              ELSE
                  /\ UNCHANGED <<final_builder, k>>
                  /\ pc' = "aborted"
    /\ UNCHANGED <<fs, builder, input, line, n_epoch, epoch, doc_indices,
                   total_docs, total_tokens, docs, perms, calls, probe, codec_calls, reused, sideVars>>

\* after the last epoch: finalize the dataset, return the totals
FinishRun ==
    /\ pc = "shuffle"
    /\ k = Len(doc_indices)
    /\ epoch = n_epoch
    /\ pc' = "done"
    /\ result' = [op |-> "process_data", ret |-> <<total_tokens, total_docs>>]
    /\ UNCHANGED <<fs, builder, reader, final_builder, input, line, n_epoch, epoch,
                   doc_indices, k, total_docs, total_tokens, fetched, docs, perms,
                   calls, probe, codec_calls, reused, sideVars>>

Next ==
    \/ ProcessDataStart
    \/ BuilderOpenOffsets
    \/ BuildLine
    \/ BuildEncoded
    \/ BuildRecord
    \/ BuildFinalize
    \/ BuildFinalizeOffsets
    \/ Interrupt
    \/ ShuffleEpoch
    \/ FetchAppend
    \/ FinishRun

Spec == Init /\ [][Next]_vars

\* the documents a complete phase 1 over the input puts into the cache
RECURSIVE CompleteCacheDocs(_)
CompleteCacheDocs(lines) ==
    IF lines = << >> THEN << >>
    ELSE LET rec == Head(lines)
             d == Append(rec.tokens, 0)
         IN  (IF rec.kind = "ok" /\ pack_H_ok(d) THEN <<d>> ELSE << >>)
                 \o CompleteCacheDocs(Tail(lines))

CacheIsComplete ==
    LET want == CompleteCacheDocs(input) IN
    /\ fs.tokens.exists /\ fs.offsets.exists
    /\ fs.tokens.bytes = pack_H(Flatten(want))
    /\ Len(fs.offsets.bytes) = RECORD_SIZE * Len(want)
    /\ Lengths(read_offsets(fs.offsets.bytes)) = DocLengths(want)

\* C3: process_data reuses a cache only when it is complete; what an
\* interrupted build leaves behind is rebuilt, never accepted.
C3_ReuseOnlyComplete ==
    (result.op = "start" /\ result.reused) => CacheIsComplete

\* C6: no item appended to the final dataset is shorter than the length its
\* offset record declares (a short read aborts the run instead).
C6_NoTruncatedItem ==
    (pc \in {"shuffle", "done"}) =>
        \A j \in 1..Len(final_builder.sizes) :
            final_builder.sizes[j] = reader.doc_offsets[fetched[j] + 1][2]

\* C8: within each epoch the ordinals fetched from the reader are pairwise
\* different and in range, each is appended as one item and one document,
\* an epoch starts only when the previous one is full, and a completed run
\* has fetched n_epoch full epochs.
C8_EpochBijection ==
    (pc \in {"shuffle", "done"}) =>
        LET N == reader_len(reader)
            F == Len(fetched)
        IN  /\ Len(final_builder.sizes) = F
            /\ final_builder.doc_idx = [i \in 1..(F + 1) |-> i - 1]
            /\ (epoch = 0) => fetched = << >>
            /\ (epoch >= 1) => (F >= (epoch - 1) * N /\ F <= epoch * N)
            /\ \A e \in 1..epoch :
                   LET lo == (e - 1) * N + 1
                       hi == Min(e * N, F)
                       seen == {fetched[i] : i \in lo..hi}
                   IN  /\ seen \subseteq 0..(N - 1)
                       /\ Cardinality(seen) = hi - lo + 1
            /\ (pc = "done") => F = n_epoch * N

C8_Witness ==
    /\ pc = "done"
    /\ n_epoch = 2
    /\ reader_len(reader) = 2
    /\ Len(fetched) = 4
    /\ perms[1] # perms[2]

\* C9: a completed run leaves document_count * n_epoch items whose lengths
\* sum to n_epoch * total_symbol_count, the totals being those returned.
C9_FinalDatasetCounts ==
    (pc = "done") =>
        /\ Len(final_builder.sizes) = result.ret[2] * n_epoch
        /\ SumSeq(final_builder.sizes) = n_epoch * result.ret[1]

\* the bytes the cache holds for each document: the stream from the
\* recorded offset, as many symbols as recorded
CachedBytes ==
    LET recs == read_offsets(fs.offsets.bytes) IN
    [i \in 1..Len(recs) |->
        file_read(fs.tokens.bytes, recs[i][1] * ITEM_SIZE, recs[i][2] * ITEM_SIZE)]

\* C10: the data file is the cached documents in the order of the generated
\* permutations, epoch after epoch: the j-th item written is the document
\* at position j of the concatenated permutations.
C10_OrderMatchesPermutations ==
    (pc \in {"shuffle", "done"}) =>
        LET order == Flatten(perms)
            n == Len(final_builder.sizes)
            cached == CachedBytes
        IN  /\ Len(perms) = epoch
            /\ n <= Len(order)
            /\ (epoch >= 1) => n = (epoch - 1) * reader_len(reader) + k
            /\ final_builder.data = Flatten([j \in 1..n |-> cached[order[j] + 1]])
            /\ \A j \in 1..n :
                   final_builder.sizes[j] * ITEM_SIZE = Len(cached[order[j] + 1])

C10_Witness ==
    /\ pc = "done"
    /\ n_epoch = 2
    /\ perms = << <<1, 0>>, <<0, 1>> >>
    /\ CachedBytes[1] # CachedBytes[2]
    /\ Len(final_builder.sizes) = 4

\* ================== the dataset writer driven directly (SpecWriter)
\* arrays handed to add_item: of the declared width or of another one
WriterArrays ==
    {[dtype |-> d, elems |-> e] :
        d \in {"uint16", "int32"}, e \in SeqsUpTo({0, 258}, MaxItemLen)}

writerFrame == <<fs, builder, reader, input, line, n_epoch, epoch, doc_indices, k,
                 total_docs, total_tokens, fetched, docs, perms, probe,
                 codec_calls, reused, mp, naming>>

WriterInit ==
    /\ pc = "writing"
    /\ final_builder = MMapIndexedDatasetBuilder_init
    /\ fs = [tokens |-> NoFile, offsets |-> NoFile]
    /\ builder = NoBuilder
    /\ reader = NoReader
    /\ input = << >> /\ line = 0 /\ n_epoch = 0 /\ epoch = 0
    /\ doc_indices = << >> /\ k = 0 /\ total_docs = 0 /\ total_tokens = 0
    /\ fetched = << >> /\ docs = << >> /\ perms = << >> /\ calls = 0
    /\ probe = NoProbe
    /\ codec_calls = 0 /\ reused = FALSE
    /\ SideInit
    /\ result = NoResult

WriterAddItem ==
    /\ pc = "writing"
    /\ calls < MaxWriterCalls
    /\ \E np_array \in WriterArrays :
         LET r == add_item(final_builder, np_array) IN
         /\ final_builder' = r.self
         /\ items' = IF r.ok THEN Append(items, np_array) ELSE items
         /\ result' = [op |-> "add_item", arg |-> np_array, ok |-> r.ok]
    /\ calls' = calls + 1
    /\ UNCHANGED <<pc, writerFrame>>

WriterEndDocument ==
    /\ pc = "writing"
    /\ calls < MaxWriterCalls
    /\ final_builder' = end_document(final_builder)
    /\ result' = [op |-> "end_document"]
    /\ calls' = calls + 1
    /\ UNCHANGED <<pc, items, writerFrame>>

WriterNext == WriterAddItem \/ WriterEndDocument

SpecWriter == WriterInit /\ [][WriterNext]_vars

\* C11: the boundary list starts at 0, is strictly increasing and no boundary
\* exceeds the item count, after any add_item / end_document calls.
C11_BoundariesStrictlyIncreasing ==
    LET b == final_builder.doc_idx IN
    /\ b[1] = 0
    /\ \A i \in 1..(Len(b) - 1) : b[i] < b[i + 1]
    /\ \A i \in 1..Len(b) : b[i] <= Len(final_builder.sizes)

\* C12: the recorded lengths sum to the number of symbols in the data file
\* and the i-th length is the size of the i-th accepted item, rejected calls
\* included in the history.
C12_LengthsMatchData ==
    (pc = "writing") =>
        /\ SumSeq(final_builder.sizes) * ITEM_SIZE = Len(final_builder.data)
        /\ final_builder.sizes = [i \in 1..Len(items) |-> Len(items[i].elems)]
        /\ frombuffer(final_builder.data)
               = Flatten([i \in 1..Len(items) |-> items[i].elems])

C12_Witness ==
    /\ pc = "writing"
    /\ Len(items) = 2
    /\ calls = 4
    /\ final_builder.sizes = <<1, 0>>
    /\ result.op = "add_item" /\ ~result.ok

\* C13: add_item with an array of another element width fails and leaves
\* the data file, the lengths and the boundaries as they were.
C13_WidthMismatchRejected ==
    [][(result'.op = "add_item" /\ result'.arg.dtype # final_builder.dtype) =>
          (~result'.ok /\ final_builder' = final_builder /\ items' = items)]_vars

C13_Witness ==
    /\ pc = "writing"
    /\ result.op = "add_item"
    /\ result.arg.dtype = "int32" /\ result.arg.elems = <<258>>
    /\ ~result.ok
    /\ final_builder.sizes = <<1>>
    /\ final_builder.doc_idx = <<0, 1>>

\* ================== the magic-prime search of __main__ (SpecPrime)
RECURSIVE is_prime_loop(_, _)
is_prime_loop(n, i) ==
    IF i * i > n THEN TRUE
    ELSE IF n % i = 0 \/ n % (i + 2) = 0 THEN FALSE
    ELSE is_prime_loop(n, i + 6)

\* variant: only the multiples of 2 and 3 are sieved out
is_prime_sieve_only(n) ==
    IF n <= 1 THEN FALSE
    ELSE IF n <= 3 THEN TRUE
    ELSE ~(n % 2 = 0 \/ n % 3 = 0)

is_prime(n) ==
    IF n <= 1 THEN FALSE
    ELSE IF n <= 3 THEN TRUE
    ELSE IF n % 2 = 0 \/ n % 3 = 0 THEN FALSE
    ELSE is_prime_loop(n, 5)

\* variant: one context of data is enough
enough_data_one_chunk(data_size, ctx_len) == data_size >= ctx_len

\* the guard of the search
enough_data(data_size, ctx_len) == data_size >= ctx_len * 3

\* variant: the scan starts at the chunk count itself
start_unadjusted(n_chunk) == n_chunk

start(n_chunk) == n_chunk - ((n_chunk - 2) % 3)

\* the two worked examples: <<total symbol count, context length>>
ExampleInputs == {<<1000000, 4096>>, <<1000, 4096>>}

PrimeInputs ==
    ((0..MaxDataSize) \X (1..MaxCtxLen)) \cup ExampleInputs

primeFrame == <<fs, builder, reader, final_builder, input, line, n_epoch, epoch,
                doc_indices, k, total_docs, total_tokens, fetched, docs, perms,
                calls, probe, codec_calls, reused, items, naming, result>>

\* the script has produced the final dataset and knows its size; ctx_len is
\* the command-line argument (a context length, so at least 1)
PrimeInit ==
    /\ pc = "mp_guard"
    /\ \E a \in PrimeInputs :
         mp = [NoSearch EXCEPT !.data_size = a[1], !.ctx_len = a[2]]
    /\ fs = [tokens |-> NoFile, offsets |-> NoFile]
    /\ builder = NoBuilder
    /\ reader = NoReader
    /\ final_builder = NoBuilder
    /\ input = << >> /\ line = 0 /\ n_epoch = 0 /\ epoch = 0
    /\ doc_indices = << >> /\ k = 0 /\ total_docs = 0 /\ total_tokens = 0
    /\ fetched = << >> /\ docs = << >> /\ perms = << >> /\ calls = 0
    /\ probe = NoProbe
    /\ codec_calls = 0 /\ reused = FALSE
    /\ items = << >> /\ naming = NoNaming
    /\ result = NoResult

\* lines 322-326: the guard, the chunk count and the first candidate
MagicGuard ==
    /\ pc = "mp_guard"
    /\ IF enough_data(mp.data_size, mp.ctx_len)
       THEN LET n_chunk == (mp.data_size \div mp.ctx_len) - 1 IN
            /\ mp' = [mp EXCEPT !.n_chunk = n_chunk, !.i = start(n_chunk)]
            /\ pc' = "mp_scan"
       ELSE /\ pc' = "mp_none"
            /\ UNCHANGED mp
    /\ UNCHANGED primeFrame

\* lines 327-334: one turn of `for i in range(start, 0, -3)`, and what
\* follows the loop
MagicScan ==
    /\ pc = "mp_scan"
    /\ IF mp.i <= 0
       THEN /\ pc' = "mp_failed"
            /\ UNCHANGED mp
       ELSE IF is_prime(mp.i)
       THEN /\ mp' = [mp EXCEPT !.magic_prime = mp.i]
            /\ pc' = "mp_found"
       ELSE /\ mp' = [mp EXCEPT !.i = mp.i - 3]
            /\ UNCHANGED pc
    /\ UNCHANGED primeFrame

PrimeNext == MagicGuard \/ MagicScan

SpecPrime == PrimeInit /\ [][PrimeNext]_vars

\* the script runs the loop to its end: no step of it waits on anything
SpecPrimeFair == SpecPrime /\ WF_vars(PrimeNext)

\* primality by trying every smaller divisor
BrutePrime(n) == n > 1 /\ \A d \in 2..(n - 1) : n % d # 0

\* C14: with total >= 3 * context the search ends with a magic prime that is
\* prime, congruent to 2 modulo 3 and the largest such number not above
\* floor(total / context) - 1, primality judged by brute force.
C14_MagicPrimeLargest ==
    (pc \in {"mp_found", "mp_none", "mp_failed"}
        /\ mp.data_size >= 3 * mp.ctx_len) =>
        LET chunk_count == (mp.data_size \div mp.ctx_len) - 1 IN
        /\ pc = "mp_found"
        /\ BrutePrime(mp.magic_prime)
        /\ mp.magic_prime % 3 = 2
        /\ mp.magic_prime <= chunk_count
        /\ \A q \in (mp.magic_prime + 1)..chunk_count :
              ~(BrutePrime(q) /\ q % 3 = 2)

C14_Witness ==
    /\ pc = "mp_found"
    /\ mp.data_size = 1000000 /\ mp.ctx_len = 4096
    /\ mp.n_chunk = 243
    /\ mp.magic_prime = 239

\* C15: with total < 3 * context the search is not entered and no magic
\* prime is produced; the script ends normally.
C15_InsufficientDataNoPrime ==
    (mp.data_size < 3 * mp.ctx_len) =>
        /\ pc \in {"mp_guard", "mp_none"}
        /\ mp.magic_prime = 0
        /\ mp.n_chunk = 0 /\ mp.i = 0

C15_Witness ==
    /\ pc = "mp_none"
    /\ mp.data_size = 1000 /\ mp.ctx_len = 4096
    /\ mp.magic_prime = 0

\* C20: when total >= 3 * context (context >= 1) every candidate of the scan
\* is at least 2 and congruent to 2 modulo 3, the scan ends with a prime
\* found, and it never runs out of candidates.
C20_ScanFindsPrime ==
    /\ [](pc # "mp_failed")
    /\ []((pc = "mp_scan") => (mp.i >= 2 /\ mp.i % 3 = 2))
    /\ ((mp.data_size >= 3 * mp.ctx_len /\ mp.ctx_len >= 1)
           ~> (pc = "mp_found" /\ mp.magic_prime >= 2))

\* the lowest start: chunk count 4, first candidate 2
C20_Witness ==
    /\ pc = "mp_found"
    /\ mp.n_chunk = 4
    /\ mp.i = 2
    /\ mp.magic_prime = 2

\* ================== what phase 1 puts into the cache
\* the documents of the well-formed lines that pass the round trip
RECURSIVE RoundTripDocs(_)
RoundTripDocs(lines) ==
    IF lines = << >> THEN << >>
    ELSE LET rec == Head(lines) IN
         (IF rec.kind = "ok" THEN <<Append(rec.tokens, 0)>> ELSE << >>)
             \o RoundTripDocs(Tail(lines))

\* the documents the cache files hold, as the reader would return them
CacheDocs ==
    LET offs == read_offsets(fs.offsets.bytes)
        syms == frombuffer(fs.tokens.bytes)
    IN  [d \in 1..Len(offs) |->
            SubSeq(syms, offs[d][1] + 1, offs[d][1] + offs[d][2])]

\* a line whose iteration ends in a `continue`: blank, malformed, failing
\* the round trip, or rejected by add_tokens (struct.error)
skipped(rec) ==
    \/ rec.kind \in {"blank", "bad", "rtfail"}
    \/ ~pack_H_ok(Append(rec.tokens, 0))

\* a step of the loop over such a line
SkipStep ==
    /\ pc \in {"build", "encoded"}
    /\ line < Len(input)
    /\ skipped(input[line + 1])
    /\ pc' # "interrupted"

\* what such a step does: the files and the builder stay as they are, and
\* the loop either has the line encoded or goes on to the next line
SkipEffect ==
    /\ fs' = fs /\ builder' = builder
    /\ IF pc = "build" /\ input[line + 1].kind \in {"rtfail", "ok"}
       THEN pc' = "encoded" /\ line' = line
       ELSE pc' = "build" /\ line' = line + 1 /\ ~result'.added

\* C16 as stated: skipped lines append nothing and the run goes on, and a
\* finished build holds exactly the round-trip-passing documents, in order.
C16_CacheHoldsRoundTripDocs ==
    (result.op = "finalize") => CacheDocs = RoundTripDocs(input)

\* C16 amended: skipped lines append nothing and the run goes on, and a
\* finished build holds exactly the round-trip-passing documents whose
\* symbol ids all fit in 16 bits, in input order.
C16_CacheHoldsEncodableDocs ==
    /\ []((result.op = "finalize") =>
            (CacheIsComplete /\ CacheDocs = CompleteCacheDocs(input)))
    /\ [][SkipStep => SkipEffect]_vars

C16_Witness ==
    /\ result.op = "finalize"
    /\ \E i \in 1..Len(input) : input[i].kind = "rtfail"
    /\ \E i \in 1..Len(input) :
          input[i] = [kind |-> "ok", tokens |-> <<USHORT_MAX + 1>>]
    /\ CacheDocs = <<(<<258, 0>>)>>

\* ================== the cache name (SpecName)
\* A path is the sequence of its characters.
\* a component between two "/": empty ones and "." are dropped by pathlib
path_part(c) == IF c = << >> \/ c = <<".">> THEN << >> ELSE <<c>>

\* the components of p that pathlib keeps; cur collects the one being read
RECURSIVE path_parts(_, _)
path_parts(p, cur) ==
    IF p = << >> THEN path_part(cur)
    ELSE IF Head(p) = "/" THEN path_part(cur) \o path_parts(Tail(p), << >>)
    ELSE path_parts(Tail(p), Append(cur, Head(p)))

\* Path(p).name: the last component, empty when there is none
path_name(p) ==
    LET parts == path_parts(p, << >>) IN
    IF parts = << >> THEN << >> ELSE parts[Len(parts)]

\* Path(p).stem: the name without its last suffix; a leading or a trailing
\* dot starts no suffix
path_stem(p) ==
    LET nm == path_name(p)
        dots == {i \in 1..Len(nm) : nm[i] = "."}
        i == IF dots = {} THEN 0
             ELSE CHOOSE d \in dots : \A e \in dots : e <= d
    IN  IF 1 < i /\ i < Len(nm) THEN SubSeq(nm, 1, i - 1) ELSE nm

\* --vocab not given (None); `if vocab_file:` treats the empty string alike
NoVocab == << >>

\* lines 188-194
temp_prefix(in_file, vocab_file) ==
    IF vocab_file # NoVocab
    THEN path_stem(in_file) \o <<"_", "t", "e", "m", "p", "_">> \o path_stem(vocab_file)
    ELSE path_stem(in_file) \o <<"_", "t", "e", "m", "p">>

\* input files and vocabulary files of two runs started in one directory
InFiles ==
    {<<"d", ".", "j">>,
     <<"a", "/", "d", ".", "j">>,
     <<"b", "/", "d", ".", "j">>,
     <<"d", ".", "t">>,
     <<"d">>,
     <<"e", ".", "j">>,
     <<"d", "_", "t", "e", "m", "p", "_", "v", ".", "j">>,
     <<"c", "/", ".", "/", "d", ".", "j">>,
     <<".", "d">>}

VocabFiles ==
    {NoVocab,
     <<"v", ".", "t">>,
     <<"a", "/", "v", ".", "t">>,
     <<"b", "/", "v", ".", "t">>,
     <<"v", ".", "u">>,
     <<"w", ".", "t">>,
     <<"c", "/", "x", ".", "t", "/">>,
     <<"v", "_", "t", "e", "m", "p", "_", "w", ".", "t">>}

nameFrame == <<fs, builder, reader, final_builder, input, line, n_epoch, epoch,
               doc_indices, k, total_docs, total_tokens, fetched, docs, perms,
               calls, probe, codec_calls, reused, items, mp, result>>

NameInit ==
    /\ pc = "naming"
    /\ naming = NoNaming
    /\ fs = [tokens |-> NoFile, offsets |-> NoFile]
    /\ builder = NoBuilder
    /\ reader = NoReader
    /\ final_builder = NoBuilder
    /\ input = << >> /\ line = 0 /\ n_epoch = 0 /\ epoch = 0
    /\ doc_indices = << >> /\ k = 0 /\ total_docs = 0 /\ total_tokens = 0
    /\ fetched = << >> /\ docs = << >> /\ perms = << >> /\ calls = 0
    /\ probe = NoProbe
    /\ codec_calls = 0 /\ reused = FALSE
    /\ items = << >> /\ mp = NoSearch
    /\ result = NoResult

\* a first run of process_data names its cache
NameFirstRun ==
    /\ pc = "naming"
    /\ ~naming.made
    /\ \E in_file \in InFiles, vocab_file \in VocabFiles :
         naming' = [made |-> TRUE, runs |-> 1,
                    first |-> [in_file |-> in_file, vocab_file |-> vocab_file,
                               temp_prefix |-> temp_prefix(in_file, vocab_file)]]
    /\ UNCHANGED <<pc, nameFrame>>

\* a second run, in the same directory, names its cache
NameSecondRun ==
    /\ pc = "naming"
    /\ naming.made /\ naming.runs = 1
    /\ \E in_file \in InFiles, vocab_file \in VocabFiles :
         naming' = [made |-> TRUE, runs |-> 2, first |-> naming.first,
                    second |-> [in_file |-> in_file, vocab_file |-> vocab_file,
                                temp_prefix |-> temp_prefix(in_file, vocab_file)]]
    /\ UNCHANGED <<pc, nameFrame>>

NameNext == NameFirstRun \/ NameSecondRun

SpecName == NameInit /\ [][NameNext]_vars

\* C17: two runs that differ in the input file or in the vocabulary file
\* (given or default) compute different cache prefixes.
C17_DistinctPairsDistinctPrefixes ==
    (naming.made /\ naming.runs = 2) =>
        ((naming.first.in_file # naming.second.in_file
             \/ naming.first.vocab_file # naming.second.vocab_file)
          => naming.first.temp_prefix # naming.second.temp_prefix)

\* ================== runs that reuse the cache
\* C18: on a run whose probe accepted the cache the codec is never called,
\* no step changes the cache files, and the counts the run works with are
\* those of the cache, whatever n_epoch is.
C18_ReuseSkipsEncoding ==
    /\ [](reused => codec_calls = 0)
    /\ []((reused /\ pc \in {"shuffle", "done"}) =>
            LET offs == read_offsets(fs.offsets.bytes) IN
            /\ total_docs = Len(offs)
            /\ total_tokens = offs[Len(offs)][1] + offs[Len(offs)][2])
    /\ [][reused' => fs' = fs]_vars

C18_Witness ==
    /\ reused
    /\ pc = "done"
    /\ n_epoch = 2
    /\ Len(input) = 2
    /\ total_docs = 2
    /\ Len(final_builder.sizes) = 4
    /\ codec_calls = 0

\* ================== the end-of-document symbol
\* a run of bytes that is at least one symbol and whose last symbol is 0
EndsWithZero(bytes) ==
    /\ Len(bytes) >= ITEM_SIZE
    /\ frombuffer(SubSeq(bytes, Len(bytes) - ITEM_SIZE + 1, Len(bytes))) = <<0>>

\* the bytes of each item of the final dataset, cut by the recorded lengths
FinalItems ==
    LET sizes == final_builder.sizes
        ends == [j \in 0..Len(sizes) |-> SumSeq(SubSeq(sizes, 1, j))]
    IN  [j \in 1..Len(sizes) |->
            SubSeq(final_builder.data, ends[j - 1] * ITEM_SIZE + 1,
                   ends[j] * ITEM_SIZE)]

\* C19: after a successful run every document the cache records and every
\* item of the final dataset, the first and the last among them, ends with
\* the symbol 0.
C19_EveryItemEndsWithZero ==
    (pc = "done") =>
        /\ \A d \in DOMAIN CachedBytes : EndsWithZero(CachedBytes[d])
        /\ \A j \in DOMAIN FinalItems : EndsWithZero(FinalItems[j])
====
